---- MODULE Spec2Model ----
(***************************************************************************)
(* Model of cubestore's query executor                                     *)
(* (rust/cubestore/src/queryplanner/query_executor.rs): the plan splitter  *)
(* (get_router_split_plan / get_worker_split_plan), the plan inspector     *)
(* (has_node, union_snapshots_from_cube_table), the partition scan builder *)
(* (CubeTable::async_scan, CubeTableExec), the cluster exchange            *)
(* (ClusterSendExec) and the row materialization (batch_to_dataframe,      *)
(* arrow_to_column_type).                                                  *)
(*                                                                         *)
(* Positions that the source counts from 0 (projection indices, output     *)
(* partition indices) are kept 0-based; TLA+ sequences are 1-based, so the *)
(* element at source position i is s[i + 1].                               *)
(***************************************************************************)
EXTENDS Integers, Sequences, FiniteSets, TLC

VARIABLES
    pc,               \* position of the modelled run
    plan,             \* the physical plan handed to the splitter
    routerPlan,       \* result of get_router_split_plan
    workerPlan,       \* result of get_worker_split_plan
    available_nodes,  \* ClusterSendExec.available_nodes
    serialized_plan,  \* the shared SerializedPlan
    lastCall,         \* the last cluster.run_select call of ClusterSendExec::execute
    status,           \* execute_router_plan: state of each driven output partition
    callCount,        \* execute_router_plan: run_select calls per output partition
    result,           \* execute_router_plan: what the run returned
    cube_table,       \* the CubeTable a scan runs on
    projection,       \* the projection handed to scan
    scanResult,       \* result of CubeTable::async_scan
    decimal,          \* a decimal array value: [value, scale]
    row,              \* the TableValue batch_to_dataframe produced for it
    batch,            \* a record batch of one column: [data_type, values]
    frame,            \* what batch_to_dataframe returned for the batch
    snapshot_groups,  \* the groups union_snapshots_from_cube_table returned
    batches           \* the record batches an executed IndexScan partition streamed

vars == <<pc, plan, routerPlan, workerPlan, available_nodes, serialized_plan,
          lastCall, status, callCount, result, cube_table, projection,
          scanResult, decimal, row, batch, frame, snapshot_groups, batches>>

----------------------------------------------------------------------------
(* Bounds of the model *)

\* operator nodes above the leaves of an enumerated plan of any shape
MaxPlanNodes == 2
\* operator nodes above the leaf of an enumerated plan of unary operators
MaxChain == 4

----------------------------------------------------------------------------
(* Generic helpers *)

RECURSIVE Flatten(_)
Flatten(ss) == IF ss = <<>> THEN <<>> ELSE Head(ss) \o Flatten(Tail(ss))

SeqToSet(s) == {s[i] : i \in 1..Len(s)}

IsPrefix(q, p) == Len(q) <= Len(p) /\ SubSeq(p, 1, Len(q)) = q

\* Option<T>
None == [some |-> FALSE, val |-> <<>>]
Some(v) == [some |-> TRUE, val |-> v]

\* a variable the running specification does not use
Idle == "idle"

----------------------------------------------------------------------------
(* Operator nodes: Arc<dyn ExecutionPlan> *)

NoSnapshot == [name |-> "", table |-> <<>>, index |-> <<>>, partitions |-> <<>>, join_on |-> FALSE]

Node(kind, schema, snap, parts, path, children) ==
    [kind |-> kind, schema |-> schema, index_snapshot |-> snap,
     partitions |-> parts, path |-> path, children |-> children]

\* a panic!/assert!/expect/unwrap/out-of-range index: no plan is returned
Panic == Node("Panic", <<>>, NoSnapshot, <<>>, <<>>, <<>>)
\* no plan computed yet
NoPlan == Node("NoPlan", <<>>, NoSnapshot, <<>>, <<>>, <<>>)

IsPlan(p) == p.kind \notin {"Panic", "NoPlan"}

EmptyExec(schema) == Node("Empty", schema, NoSnapshot, <<>>, <<>>, <<>>)
MemoryExec(schema) == Node("Memory", schema, NoSnapshot, <<>>, <<>>, <<>>)
ParquetExec(local_path, schema) == Node("Parquet", schema, NoSnapshot, <<>>, local_path, <<>>)
MergeExec(input) == Node("Merge", input.schema, NoSnapshot, <<>>, <<>>, <<input>>)
MergeSortExec(input) == Node("MergeSort", input.schema, NoSnapshot, <<>>, <<>>, <<input>>)
CubeTableExec(schema, partition_execs, index_snapshot) ==
    Node("CubeTable", schema, index_snapshot, <<>>, <<>>, partition_execs)

\* the engine's own operators
HashAggregateExec(input) == Node("HashAggregate", <<"agg">>, NoSnapshot, <<>>, <<>>, <<input>>)
SortExec(input) == Node("Sort", input.schema, NoSnapshot, <<>>, <<>>, <<input>>)
GlobalLimitExec(input) == Node("GlobalLimit", input.schema, NoSnapshot, <<>>, <<>>, <<input>>)
ProjectionExec(input) == Node("Projection", <<"proj">>, NoSnapshot, <<>>, <<>>, <<input>>)
UnionExec(inputs) == Node("Union", inputs[1].schema, NoSnapshot, <<>>, <<>>, inputs)
JoinExec(left, right) == Node("Join", left.schema \o right.schema, NoSnapshot, <<>>, <<>>, <<left, right>>)

\* ExecutionPlan::with_new_children: the same node over other children
with_new_children(p, children) == [p EXCEPT !.children = children]

\* the node at path p (a sequence of 1-based child indices) of tree t
RECURSIVE Subtree(_, _)
Subtree(t, p) == IF p = <<>> THEN t ELSE Subtree(t.children[Head(p)], Tail(p))

\* the paths of all nodes of t
RECURSIVE Paths(_)
Paths(t) ==
    {<<>>} \cup UNION {{<<i>> \o q : q \in Paths(t.children[i])} : i \in 1..Len(t.children)}

PathsOfKind(t, kind) == {p \in Paths(t) : Subtree(t, p).kind = kind}

----------------------------------------------------------------------------
(* Plan inspector *)

\* QueryExecutorImpl::has_node::<T>
RECURSIVE has_node(_, _)
has_node(T, execution_plan) ==
    IF execution_plan.kind = T
    THEN TRUE
    ELSE \E i \in 1..Len(execution_plan.children) : has_node(T, execution_plan.children[i])

RECURSIVE index_snapshots_from_cube_table(_)
\* a plausible slip: only the scans that are direct inputs of the union are
\* collected, nested operators are not descended into
index_snapshots_direct_inputs(execution_plan) ==
    IF execution_plan.kind = "CubeTable"
    THEN <<execution_plan.index_snapshot>>
    ELSE IF execution_plan.kind \in {"Merge", "MergeSort"}
    THEN Flatten([i \in 1..Len(execution_plan.children) |->
                    index_snapshots_from_cube_table(execution_plan.children[i])])
    ELSE <<>>

\* QueryExecutorImpl::index_snapshots_from_cube_table
index_snapshots_from_cube_table(execution_plan) ==
    IF execution_plan.kind = "CubeTable"
    THEN <<execution_plan.index_snapshot>>
    ELSE Flatten([i \in 1..Len(execution_plan.children) |->
                    index_snapshots_from_cube_table(execution_plan.children[i])])

RECURSIVE union_snapshots_from_cube_table(_)
\* a plausible slip: a union treated like any other node (one group per scan)
union_snapshots_no_union_rule(execution_plan) ==
    IF execution_plan.kind = "CubeTable"
    THEN <<<<execution_plan.index_snapshot>>>>
    ELSE Flatten([i \in 1..Len(execution_plan.children) |->
                    union_snapshots_from_cube_table(execution_plan.children[i])])

\* QueryExecutorImpl::union_snapshots_from_cube_table
union_snapshots_from_cube_table(execution_plan) ==
    IF execution_plan.kind = "CubeTable"
    THEN <<<<execution_plan.index_snapshot>>>>
    ELSE IF execution_plan.kind = "Union"
    THEN <<Flatten([i \in 1..Len(execution_plan.children) |->
                      index_snapshots_from_cube_table(execution_plan.children[i])])>>
    ELSE Flatten([i \in 1..Len(execution_plan.children) |->
                    union_snapshots_from_cube_table(execution_plan.children[i])])

----------------------------------------------------------------------------
(* Cluster exchange: construction *)

\* itertools::multi_cartesian_product: the last list is iterated fastest
RECURSIVE multi_cartesian_product(_)
multi_cartesian_product(lists) ==
    IF lists = <<>>
    THEN <<<<>>>>
    ELSE LET rest == multi_cartesian_product(Tail(lists))
         IN  Flatten([i \in 1..Len(Head(lists)) |->
                        [j \in 1..Len(rest) |-> <<Head(lists)[i]>> \o rest[j]]])

\* the partitions of one union group, snapshot after snapshot
GroupPartitions(union) ==
    Flatten([s \in 1..Len(union) |->
               [k \in 1..Len(union[s].partitions) |-> union[s].partitions[k].id]])

\* a plausible slip: the groups multiplied in reverse order
ClusterSendExec_new_reversed(schema, union_snapshots) ==
    LET to_multiply == [g \in 1..Len(union_snapshots) |->
                          GroupPartitions(union_snapshots[Len(union_snapshots) + 1 - g])]
        reversed == multi_cartesian_product(to_multiply)
        partitions == [n \in 1..Len(reversed) |->
                         [g \in 1..Len(reversed[n]) |-> reversed[n][Len(reversed[n]) + 1 - g]]]
    IN  Node("ClusterSend", schema, NoSnapshot, partitions, <<>>, <<>>)

\* ClusterSendExec::new; a partition (IdRow<Partition>) is kept as its id
ClusterSendExec_new(schema, union_snapshots) ==
    LET to_multiply == [g \in 1..Len(union_snapshots) |-> GroupPartitions(union_snapshots[g])]
        partitions == multi_cartesian_product(to_multiply)
    IN  Node("ClusterSend", schema, NoSnapshot, partitions, <<>>, <<>>)

\* ClusterSendExec::output_partitioning
ClusterSend_output_partitioning(cluster_send) == Len(cluster_send.partitions)

----------------------------------------------------------------------------
(* Plan splitter *)

\* a plausible slip: the fall-back closure matches only the table scan nodes
\* (a split "at the leaves")
split_at_fn_scans_only(fn, execution_plan) ==
    (fn = "any" /\ execution_plan.kind = "CubeTable") \/ execution_plan.kind = fn

\* split_at_fn: the closures of get_router_split_plan / get_worker_split_plan,
\* named by the kind they downcast to; "any" is |_| true
split_at_fn(fn, execution_plan) == fn = "any" \/ execution_plan.kind = fn

\* a plausible slip: the exchange is given every old child's place
wrap_with_cluster_send_keep_arity(execution_plan, children) ==
    LET union_snapshots == union_snapshots_from_cube_table(execution_plan)
    IN  IF Len(children) = 0
        THEN Panic
        ELSE with_new_children(execution_plan,
                 [i \in 1..Len(children) |->
                     IF union_snapshots # <<>>
                     THEN MergeExec(ClusterSendExec_new(children[i].schema, union_snapshots))
                     ELSE EmptyExec(children[i].schema)])

\* QueryExecutorImpl::wrap_with_cluster_send; children[0] of a node without
\* children is an out-of-range index
wrap_with_cluster_send(execution_plan, children) ==
    LET union_snapshots == union_snapshots_from_cube_table(execution_plan)
    IN  IF Len(children) = 0
        THEN Panic
        ELSE IF union_snapshots # <<>>
        THEN with_new_children(execution_plan,
                 <<MergeExec(ClusterSendExec_new(children[1].schema, union_snapshots))>>)
        ELSE with_new_children(execution_plan, <<EmptyExec(children[1].schema)>>)

\* a plausible slip: Sort is looked for before HashAggregate
router_split_kind_sort_first(execution_plan) ==
    IF has_node("Sort", execution_plan) THEN "Sort"
    ELSE IF has_node("HashAggregate", execution_plan) THEN "HashAggregate"
    ELSE IF has_node("GlobalLimit", execution_plan) THEN "GlobalLimit"
    ELSE "any"

\* the if / else-if chain of get_router_split_plan
router_split_kind(execution_plan) ==
    IF has_node("HashAggregate", execution_plan) THEN "HashAggregate"
    ELSE IF has_node("Sort", execution_plan) THEN "Sort"
    ELSE IF has_node("GlobalLimit", execution_plan) THEN "GlobalLimit"
    ELSE "any"

\* the if / else-if chain of get_worker_split_plan
worker_split_kind(execution_plan) ==
    IF has_node("HashAggregate", execution_plan) THEN "HashAggregate"
    ELSE IF has_node("Sort", execution_plan) THEN "Sort"
    ELSE IF has_node("GlobalLimit", execution_plan) THEN "GlobalLimit"
    ELSE "any"

RECURSIVE get_router_split_plan(_)
RECURSIVE get_router_split_plan_at(_, _)
RECURSIVE get_worker_split_plan(_)
RECURSIVE get_worker_split_plan_at(_, _)

\* a plausible slip: a node that is not the split point is returned as it is
get_router_split_plan_at_no_descent(execution_plan, fn) ==
    IF split_at_fn(fn, execution_plan)
    THEN wrap_with_cluster_send(execution_plan, execution_plan.children)
    ELSE execution_plan

\* QueryExecutorImpl::get_router_split_plan_at
get_router_split_plan_at(execution_plan, fn) ==
    IF split_at_fn(fn, execution_plan)
    THEN wrap_with_cluster_send(execution_plan, execution_plan.children)
    ELSE LET children == [i \in 1..Len(execution_plan.children) |->
                            get_router_split_plan(execution_plan.children[i])]
         IN  IF \E i \in 1..Len(children) : ~IsPlan(children[i])
             THEN Panic
             ELSE with_new_children(execution_plan, children)

\* QueryExecutorImpl::get_router_split_plan
get_router_split_plan(execution_plan) ==
    get_router_split_plan_at(execution_plan, router_split_kind(execution_plan))

\* a plausible slip: the split node itself is handed to the worker
get_worker_split_plan_at_keeps_node(execution_plan, fn) ==
    IF Len(execution_plan.children) # 1
    THEN Panic
    ELSE IF split_at_fn(fn, execution_plan)
    THEN execution_plan
    ELSE get_worker_split_plan(execution_plan.children[1])

\* a plausible slip: the number of children is not asserted, the first child
\* is followed
get_worker_split_plan_at_first_child(execution_plan, fn) ==
    IF Len(execution_plan.children) = 0
    THEN Panic
    ELSE IF split_at_fn(fn, execution_plan)
    THEN execution_plan.children[1]
    ELSE get_worker_split_plan(execution_plan.children[1])

\* QueryExecutorImpl::get_worker_split_plan_at; the assert! is a panic
get_worker_split_plan_at(execution_plan, fn) ==
    IF Len(execution_plan.children) # 1
    THEN Panic
    ELSE IF split_at_fn(fn, execution_plan)
    THEN execution_plan.children[1]
    ELSE get_worker_split_plan(execution_plan.children[1])

\* QueryExecutorImpl::get_worker_split_plan
get_worker_split_plan(execution_plan) ==
    get_worker_split_plan_at(execution_plan, worker_split_kind(execution_plan))

----------------------------------------------------------------------------
(* Partition scan builder *)

\* Partition::get_full_name / Chunk::get_full_name: the remote-storage name
PartitionFullName(id) == <<"partition", id>>
ChunkFullName(id) == <<"chunk", id>>
LocalPath(remote_path) == <<"local">> \o remote_path

\* CubeTable::try_new: the schema is the index's column list
CubeTable_try_new(index_snapshot, remote_to_local_names, worker_partition_ids) ==
    [index_snapshot |-> index_snapshot,
     schema |-> index_snapshot.index,
     remote_to_local_names |-> remote_to_local_names,
     worker_partition_ids |-> worker_partition_ids]

\* CubeTable::project_to_table
project_to_table(table, projection_column_indices) ==
    [j \in 1..Len(projection_column_indices) |-> table[projection_column_indices[j] + 1]]

\* CubeTable::project_to_index_positions: find_position by name, 0-based
project_to_index_positions(projection_columns, index) ==
    [j \in 1..Len(projection_columns) |->
        IF \E p \in 1..Len(index) : index[p] = projection_columns[j]
        THEN Some((CHOOSE p \in 1..Len(index) :
                      /\ index[p] = projection_columns[j]
                      /\ \A q \in 1..(p - 1) : index[q] # projection_columns[j]) - 1)
        ELSE None]

\* async_scan, lines 420-425: Option<Vec<usize>>; unwrap() of an unresolved
\* column panics, reported here as "panic"
mapped_projection_of(self, p) ==
    IF ~p.some
    THEN [panic |-> FALSE, some |-> FALSE, val |-> <<>>]
    ELSE LET positions == project_to_index_positions(
                              project_to_table(self.index_snapshot.table, p.val),
                              self.index_snapshot.index)
         IN  IF \E j \in 1..Len(positions) : ~positions[j].some
             THEN [panic |-> TRUE, some |-> FALSE, val |-> <<>>]
             ELSE [panic |-> FALSE, some |-> TRUE,
                   val |-> [j \in 1..Len(positions) |-> positions[j].val]]

\* the schema a columnar-file scan reads: the file's (the index's) columns
\* picked in the order of the projection
FileSchema(self, mapped_projection) ==
    IF mapped_projection.some
    THEN [j \in 1..Len(mapped_projection.val) |-> self.schema[mapped_projection.val[j] + 1]]
    ELSE self.schema

\* async_scan, lines 436-448 and 450-464: the remote names one partition
\* snapshot looks up, in order
PartitionRemotePaths(partition_snapshot) ==
    (IF partition_snapshot.file THEN <<PartitionFullName(partition_snapshot.id)>> ELSE <<>>)
    \o [c \in 1..Len(partition_snapshot.chunks) |-> ChunkFullName(partition_snapshot.chunks[c])]

\* a plausible slip: a partition is scanned whether or not it is selected
ScanRemotePaths_unfiltered(self) ==
    LET ps == self.index_snapshot.partitions
    IN  Flatten([k \in 1..Len(ps) |-> PartitionRemotePaths(ps[k])])

\* async_scan, lines 427-465: the remote names looked up, in order
ScanRemotePaths(self) ==
    LET ps == self.index_snapshot.partitions
    IN  Flatten([k \in 1..Len(ps) |->
                   IF ps[k].id \in self.worker_partition_ids
                   THEN PartitionRemotePaths(ps[k])
                   ELSE <<>>])

\* async_scan, lines 471-482: the index schema's fields, in the index's order,
\* whose position occurs in the mapped projection
projected_schema_of(self, mapped_projection) ==
    IF mapped_projection.some
    THEN LET kept == SelectSeq([i \in 1..Len(self.schema) |-> i - 1],
                               LAMBDA i : \E j \in 1..Len(mapped_projection.val) :
                                              mapped_projection.val[j] = i)
         IN  [k \in 1..Len(kept) |-> self.schema[kept[k] + 1]]
    ELSE self.schema

\* a plausible slip: a file without a local path is left out of the scan
fan_out_skip_missing(self, mapped_projection) ==
    LET remote_paths == SelectSeq(ScanRemotePaths(self),
                                  LAMBDA r : r \in self.remote_to_local_names)
    IN  [panic |-> FALSE,
         execs |-> [r \in 1..Len(remote_paths) |->
                       ParquetExec(LocalPath(remote_paths[r]), FileSchema(self, mapped_projection))]]

\* async_scan, lines 427-465: one columnar-file scan per name looked up;
\* expect() of a name without a local path panics
fan_out(self, mapped_projection) ==
    LET remote_paths == ScanRemotePaths(self)
    IN  IF \E r \in 1..Len(remote_paths) : remote_paths[r] \notin self.remote_to_local_names
        THEN [panic |-> TRUE, execs |-> <<>>]
        ELSE [panic |-> FALSE,
              execs |-> [r \in 1..Len(remote_paths) |->
                            ParquetExec(LocalPath(remote_paths[r]),
                                        FileSchema(self, mapped_projection))]]

\* a plausible slip: nothing is put in place of an empty fan-out
empty_guard_off(self, partition_execs) == partition_execs

\* async_scan, lines 467-469
empty_guard(self, partition_execs) ==
    IF Len(partition_execs) = 0 THEN <<EmptyExec(self.schema)>> ELSE partition_execs

\* CubeTable::async_scan
async_scan(self, p) ==
    LET mapped_projection == mapped_projection_of(self, p)
        found == fan_out(self, mapped_projection)
        partition_execs == empty_guard(self, found.execs)
        projected_schema == projected_schema_of(self, mapped_projection)
        exec == CubeTableExec(projected_schema, partition_execs, self.index_snapshot)
    IN  IF mapped_projection.panic
        THEN Panic
        ELSE IF found.panic
        THEN Panic
        ELSE IF self.index_snapshot.join_on
        THEN MergeSortExec(exec)
        ELSE MergeExec(exec)

\* CubeTableExec::output_partitioning
CubeTableExec_output_partitioning(exec) == Len(exec.children)

----------------------------------------------------------------------------
(* The plans the splitter is run on *)

Partition(id, file, chunks) == [id |-> id, file |-> file, chunks |-> chunks]

\* the remote names of every file of a snapshot
AllRemotePaths(index_snapshot) ==
    UNION {SeqToSet(PartitionRemotePaths(index_snapshot.partitions[k])) :
               k \in 1..Len(index_snapshot.partitions)}

\* snapshot A: two partitions, scanned with no partition selected (the
\* empty guard fires); snapshot B: three partitions, join keys set, scanned
\* with two partitions selected
SnapshotA ==
    [name |-> "A", table |-> <<"a", "b">>, index |-> <<"b", "a">>,
     partitions |-> <<Partition(1, TRUE, <<>>), Partition(2, FALSE, <<21>>)>>,
     join_on |-> FALSE]
SnapshotB ==
    [name |-> "B", table |-> <<"c">>, index |-> <<"c">>,
     partitions |-> <<Partition(3, TRUE, <<31>>), Partition(4, TRUE, <<>>),
                      Partition(5, FALSE, <<>>)>>,
     join_on |-> TRUE]

ScanA == async_scan(CubeTable_try_new(SnapshotA, {}, {}), None)
ScanB == async_scan(CubeTable_try_new(SnapshotB, AllRemotePaths(SnapshotB), {3, 4}), None)

\* the leaves of a physical plan: table scans as scan() returns them, and a
\* source that is no cube table
PlanLeaves == {ScanA, ScanB, MemoryExec(<<"m">>)}

UnaryNode(kind, input) ==
    CASE kind = "HashAggregate" -> HashAggregateExec(input)
      [] kind = "Sort" -> SortExec(input)
      [] kind = "GlobalLimit" -> GlobalLimitExec(input)
      [] kind = "Projection" -> ProjectionExec(input)

BinaryNode(kind, left, right) ==
    CASE kind = "Union" -> UnionExec(<<left, right>>)
      [] kind = "Join" -> JoinExec(left, right)

\* the plans with exactly n operator nodes above their leaves
RECURSIVE PlansOfSize(_)
PlansOfSize(n) ==
    IF n = 0
    THEN PlanLeaves
    ELSE {UnaryNode(k, t) : k \in {"HashAggregate", "Sort", "GlobalLimit", "Projection"},
                            t \in PlansOfSize(n - 1)}
         \cup UNION {{BinaryNode(k, l, r) : k \in {"Union", "Join"},
                                            l \in PlansOfSize(i),
                                            r \in PlansOfSize(n - 1 - i)} : i \in 0..(n - 1)}


\* the plans of exactly n unary operator nodes above one leaf
RECURSIVE ChainsOfLength(_)
ChainsOfLength(n) ==
    IF n = 0
    THEN PlanLeaves
    ELSE {UnaryNode(k, t) : k \in {"HashAggregate", "Sort", "GlobalLimit", "Projection"},
                            t \in ChainsOfLength(n - 1)}

----------------------------------------------------------------------------
(* Specification Spec: one plan is split for the router and for the worker *)

Init ==
    /\ pc = "split"
    /\ plan \in UNION {PlansOfSize(n) : n \in 0..MaxPlanNodes}
                \cup UNION {ChainsOfLength(n) : n \in 0..MaxChain}
    /\ routerPlan = NoPlan
    /\ workerPlan = NoPlan
    /\ available_nodes = Idle
    /\ serialized_plan = Idle
    /\ lastCall = Idle
    /\ status = Idle
    /\ callCount = Idle
    /\ result = Idle
    /\ cube_table = Idle
    /\ projection = Idle
    /\ scanResult = Idle
    /\ decimal = Idle
    /\ row = Idle
    /\ batch = Idle
    /\ frame = Idle
    /\ snapshot_groups = Idle
    /\ batches = Idle

\* execute_router_plan, lines 83-88
RouterSplit ==
    /\ pc = "split"
    /\ routerPlan = NoPlan
    /\ routerPlan' = get_router_split_plan(plan)
    /\ UNCHANGED <<pc, plan, workerPlan, available_nodes, serialized_plan, lastCall,
                   status, callCount, result, cube_table, projection, scanResult,
                   decimal, row, batch, frame, snapshot_groups, batches>>

\* execute_worker_plan, line 137
WorkerSplit ==
    /\ pc = "split"
    /\ workerPlan = NoPlan
    /\ workerPlan' = get_worker_split_plan(plan)
    /\ UNCHANGED <<pc, plan, routerPlan, available_nodes, serialized_plan, lastCall,
                   status, callCount, result, cube_table, projection, scanResult,
                   decimal, row, batch, frame, snapshot_groups, batches>>

Next == RouterSplit \/ WorkerSplit

Spec == Init /\ [][Next]_vars

----------------------------------------------------------------------------
(* Properties of the plan splitter *)

\* what the splitting action leaves as the only child of the split node
IsExchange(t) ==
    \/ t.kind = "Merge" /\ Len(t.children) = 1 /\ t.children[1].kind = "ClusterSend"
    \/ t.kind = "Empty"

\* the paths of the nodes of a router plan at which the splitting action was
\* applied (a CubeTable over an empty relation is a scan with nothing to read)
SplitPoints(rp) ==
    {q \in Paths(rp) :
        LET n == Subtree(rp, q)
        IN  /\ Len(n.children) = 1
            /\ IsExchange(n.children[1])
            /\ (n.kind = "CubeTable" => n.children[1].kind = "Merge")}

ProperPrefixes(p) == {SubSeq(p, 1, n) : n \in 0..(Len(p) - 1)}

\* the nodes of kind K that have no node of kind K above them
TopmostOfKind(t, K) ==
    {p \in PathsOfKind(t, K) : \A q \in ProperPrefixes(p) : Subtree(t, q).kind # K}

\* the ClusterSend nodes of rp that stand for the plan position p: the
\* exchange put below a split node that is an ancestor of p
CoveringSends(rp, p) ==
    {c \in PathsOfKind(rp, "ClusterSend") :
        Len(c) >= 2 /\ IsPrefix(SubSeq(c, 1, Len(c) - 2), p) /\ Len(c) - 2 < Len(p)}

\* C1: after router_split, each path from the root to the position of a
\* former IndexScan holds exactly one ClusterSend, and no IndexScan (and no
\* other ClusterSend) is an ancestor of a ClusterSend.
C1_OneClusterSendPerScan ==
    IsPlan(routerPlan) =>
        /\ \A p \in PathsOfKind(plan, "CubeTable") :
               Cardinality(CoveringSends(routerPlan, p)) = 1
        /\ \A c \in PathsOfKind(routerPlan, "ClusterSend") :
               \A q \in ProperPrefixes(c) :
                   Subtree(routerPlan, q).kind \notin {"CubeTable", "ClusterSend"}

\* a plan with scans on two branches that are split at different nodes
C1_Witness ==
    /\ IsPlan(routerPlan)
    /\ plan.kind = "Join"
    /\ Cardinality(PathsOfKind(plan, "CubeTable")) = 2
    /\ Cardinality(PathsOfKind(routerPlan, "ClusterSend")) = 2
    /\ C1_OneClusterSendPerScan

\* C2: mirror symmetry: whenever worker_split returns a subtree, router_split
\* applied its splitting action at exactly one node, and the worker's subtree
\* is the original child of that node.
C2_MirrorSymmetry ==
    (IsPlan(workerPlan) /\ routerPlan # NoPlan) =>
        /\ IsPlan(routerPlan)
        /\ Cardinality(SplitPoints(routerPlan)) = 1
        /\ \A q \in SplitPoints(routerPlan) :
               /\ q \in Paths(plan)
               /\ Len(Subtree(plan, q).children) = 1
               /\ workerPlan = Subtree(plan, q \o <<1>>)

\* HashAggregate(Sort(scan)): the router keeps HashAggregate(Merge(ClusterSend)),
\* the worker executes Sort(scan)
C2_Witness ==
    /\ plan.kind = "HashAggregate"
    /\ plan.children[1].kind = "Sort"
    /\ plan.children[1].children[1].kind \in {"Merge", "MergeSort"}
    /\ IsPlan(workerPlan)
    /\ workerPlan = plan.children[1]
    /\ IsPlan(routerPlan)
    /\ routerPlan.kind = "HashAggregate"
    /\ routerPlan.children[1].kind = "Merge"
    /\ routerPlan.children[1].children[1].kind = "ClusterSend"

\* the first kind of [HashAggregate, Sort, GlobalLimit] the plan contains
FirstKindPresent(t) ==
    IF PathsOfKind(t, "HashAggregate") # {} THEN "HashAggregate"
    ELSE IF PathsOfKind(t, "Sort") # {} THEN "Sort"
    ELSE IF PathsOfKind(t, "GlobalLimit") # {} THEN "GlobalLimit"
    ELSE "none"

\* C3: the splitting action is applied at the highest node of the first kind
\* of [HashAggregate, Sort, GlobalLimit] that the plan contains; the nodes
\* above it stay on the router as they were.
C3_FirstMatchSplitKind ==
    (IsPlan(routerPlan) /\ FirstKindPresent(plan) # "none") =>
        \A p \in TopmostOfKind(plan, FirstKindPresent(plan)) :
            /\ p \in SplitPoints(routerPlan)
            /\ Subtree(routerPlan, p).kind = FirstKindPresent(plan)
            /\ \A q \in ProperPrefixes(p) :
                   /\ q \notin SplitPoints(routerPlan)
                   /\ Subtree(routerPlan, q).kind = Subtree(plan, q).kind
                   /\ Len(Subtree(routerPlan, q).children) = Len(Subtree(plan, q).children)

\* a Sort above a HashAggregate: the split is at the HashAggregate
C3_Witness ==
    /\ plan.kind = "Sort"
    /\ plan.children[1].kind = "HashAggregate"
    /\ IsPlan(routerPlan)
    /\ routerPlan.kind = "Sort"
    /\ SplitPoints(routerPlan) = {<<1>>}

NoSplitKind(t) == FirstKindPresent(t) = "none"

\* a leaf of the plan: a table scan (with the merge scan() puts over it) or a
\* node without children
IsPlanLeaf(t) ==
    \/ Len(t.children) = 0
    \/ t.kind = "CubeTable"
    \/ t.kind \in {"Merge", "MergeSort"} /\ t.children[1].kind = "CubeTable"

\* C4 as stated: without HashAggregate, Sort and GlobalLimit the interior
\* nodes are kept and the splitting action is applied only at the leaves.
C4_SplitsOnlyAtLeaves ==
    (NoSplitKind(plan) /\ PathsOfKind(plan, "CubeTable") # {} /\ IsPlan(routerPlan)) =>
        /\ \A q \in SplitPoints(routerPlan) : q \in Paths(plan) /\ IsPlanLeaf(Subtree(plan, q))
        /\ \A p \in Paths(plan) :
               ~IsPlanLeaf(Subtree(plan, p)) =>
                   p \in Paths(routerPlan) /\ Subtree(routerPlan, p).kind = Subtree(plan, p).kind

\* C4 amended: without HashAggregate, Sort and GlobalLimit the splitting
\* action is applied once, at the root of the plan: the root is kept over the
\* exchange alone and no node below the root is kept.
C4_SplitsAtRoot ==
    (NoSplitKind(plan) /\ routerPlan # NoPlan /\ Len(plan.children) > 0) =>
        /\ IsPlan(routerPlan)
        /\ SplitPoints(routerPlan) = {<<>>}
        /\ routerPlan.kind = plan.kind
        /\ \A p \in Paths(routerPlan) : Subtree(routerPlan, p).kind # "CubeTable"
        /\ Paths(routerPlan) \subseteq {<<>>, <<1>>, <<1, 1>>}

\* Projection(Join(scan, scan)): split at the Projection, the Join is gone
C4_Witness ==
    /\ plan.kind = "Projection"
    /\ plan.children[1].kind = "Join"
    /\ NoSplitKind(plan)
    /\ PathsOfKind(plan, "CubeTable") # {}
    /\ IsPlan(routerPlan)
    /\ routerPlan.children[1].kind = "Merge"

\* the path that follows the first child d times
FirstChildPath(d) == [i \in 1..d |-> 1]

\* the nodes get_worker_split_plan visits: the root, and the only child of a
\* visited node that has one child and is not of the split kind K ("none":
\* every node matches)
VisitedDepths(t, K) ==
    {d \in 0..(MaxPlanNodes + MaxChain + 2) :
        /\ FirstChildPath(d) \in Paths(t)
        /\ \A e \in 0..(d - 1) :
               /\ Len(Subtree(t, FirstChildPath(e)).children) = 1
               /\ K # "none"
               /\ Subtree(t, FirstChildPath(e)).kind # K}

\* C14: worker_split returns the single child of the first node, walking down
\* from the root, whose kind is the selected split kind (the root when the
\* plan holds none of the kinds), and fails whenever a node visited on that
\* walk does not have exactly one child; it then returns no subtree.
C14_WorkerSplitSingleChild ==
    workerPlan # NoPlan =>
        LET K == FirstKindPresent(plan)
            visited == VisitedDepths(plan, K)
            last == CHOOSE d \in visited : \A e \in visited : e <= d
            node == Subtree(plan, FirstChildPath(last))
        IN  /\ (\E d \in visited : Len(Subtree(plan, FirstChildPath(d)).children) # 1)
                   <=> workerPlan = Panic
            /\ IsPlan(workerPlan) =>
                   /\ K = "none" \/ node.kind = K
                   /\ K = "none" => last = 0
                   /\ \A e \in 0..(last - 1) : Subtree(plan, FirstChildPath(e)).kind # K
                   /\ Len(node.children) = 1
                   /\ workerPlan = node.children[1]

\* a Join above the HashAggregate: the walk fails at the Join
C14_Witness ==
    /\ plan.kind = "Join"
    /\ Len(plan.children) = 2
    /\ plan.children[1].kind = "HashAggregate"
    /\ workerPlan = Panic

----------------------------------------------------------------------------
(* Specification SpecSend: a ClusterSendExec is built at a split node and   *)
(* its output partitions are executed                                       *)

\* partitions per index snapshot
MaxPartitions == 3
\* worker nodes the cluster reports
MaxWorkers == 2

\* a snapshot of n partitions with ids first, first + 1, ...
SnapshotOf(name, first, n) ==
    [name |-> name, table |-> <<name>>, index |-> <<name>>,
     partitions |-> [k \in 1..n |-> Partition(first + k - 1, TRUE, <<>>)],
     join_on |-> FALSE]

\* the router builds its physical plan from plan.logical_plan(&HashMap::new()):
\* nothing is local and no partition is selected
RouterScan(index_snapshot) == async_scan(CubeTable_try_new(index_snapshot, {}, {}), None)

\* the subtrees put below the split node
SendShapes == {"scan", "union", "join", "self_join", "join_of_union", "join3"}

SendSubtree(shape, A, B, C) ==
    CASE shape = "scan" -> RouterScan(A)
      [] shape = "union" -> UnionExec(<<RouterScan(A), RouterScan(B)>>)
      [] shape = "join" -> JoinExec(RouterScan(A), RouterScan(B))
      [] shape = "self_join" -> JoinExec(RouterScan(A), RouterScan(A))
      [] shape = "join_of_union" ->
            JoinExec(UnionExec(<<RouterScan(A), RouterScan(B)>>), RouterScan(C))
      [] shape = "join3" -> JoinExec(JoinExec(RouterScan(A), RouterScan(B)), RouterScan(C))

SendPlans(sizes) ==
    {HashAggregateExec(SendSubtree(shape, SnapshotOf("A", 1, nA), SnapshotOf("B", 11, nB),
                                   SnapshotOf("C", 21, nC))) :
        shape \in SendShapes, nA \in 0..sizes, nB \in 0..sizes, nC \in 0..sizes}

WorkerNames == <<"worker1", "worker2", "worker3", "worker4">>
NodeLists == {SubSeq(WorkerNames, 1, n) : n \in 0..MaxWorkers}

\* SerializedPlan::with_partition_id_to_execute: a copy of the plan that
\* names the partitions to execute
with_partition_id_to_execute(self, partition_ids) ==
    [self EXCEPT !.partition_ids_to_execute = partition_ids]

NoCall == [kind |-> "none", partition |-> 0, node |-> "", plan |-> <<>>]
PanicCall == [kind |-> "panic", partition |-> 0, node |-> "", plan |-> <<>>]

\* a plausible slip: the plan is specialized to the ids of every tuple
ClusterSendExec_execute_all_partitions(self, nodes, shared_plan, partition) ==
    IF nodes = <<>> \/ partition >= Len(self.partitions)
    THEN PanicCall
    ELSE [kind |-> "call", partition |-> partition, node |-> nodes[1],
          plan |-> with_partition_id_to_execute(shared_plan,
                       UNION {SeqToSet(self.partitions[n]) : n \in 1..Len(self.partitions)})]

\* ClusterSendExec::execute, lines 659-670: the cluster.run_select call made
\* for output partition `partition` (0-based); available_nodes[0] of an empty
\* list and partitions[partition] out of range panic
ClusterSendExec_execute(self, nodes, shared_plan, partition) ==
    IF nodes = <<>> \/ partition >= Len(self.partitions)
    THEN PanicCall
    ELSE [kind |-> "call", partition |-> partition, node |-> nodes[1],
          plan |-> with_partition_id_to_execute(shared_plan,
                       SeqToSet(self.partitions[partition + 1]))]

\* the ClusterSend of a router plan that holds one
ClusterSendOf(rp) == Subtree(rp, CHOOSE c \in PathsOfKind(rp, "ClusterSend") : TRUE)

\* the output partition indices the engine may ask the ClusterSend for
OutputPartitions ==
    IF IsPlan(routerPlan) /\ PathsOfKind(routerPlan, "ClusterSend") # {}
    THEN 0..(ClusterSend_output_partitioning(ClusterSendOf(routerPlan)) - 1)
    ELSE {}

InitSend ==
    /\ pc = "split"
    /\ plan \in SendPlans(MaxPartitions)
    /\ routerPlan = NoPlan
    /\ workerPlan = NoPlan
    /\ available_nodes \in NodeLists
    /\ serialized_plan = [logical_plan |-> "query", partition_ids_to_execute |-> {}]
    /\ lastCall = NoCall
    /\ status = Idle
    /\ callCount = Idle
    /\ result = Idle
    /\ cube_table = Idle
    /\ projection = Idle
    /\ scanResult = Idle
    /\ decimal = Idle
    /\ row = Idle
    /\ batch = Idle
    /\ frame = Idle
    /\ snapshot_groups = Idle
    /\ batches = Idle

\* execute_router_plan, lines 82-88: the plan is split with the nodes the
\* cluster reports
SendSplit ==
    /\ pc = "split"
    /\ routerPlan' = get_router_split_plan(plan)
    /\ pc' = "execute"
    /\ UNCHANGED <<plan, workerPlan, available_nodes, serialized_plan, lastCall,
                   status, callCount, result, cube_table, projection, scanResult,
                   decimal, row, batch, frame, snapshot_groups, batches>>

\* ClusterSendExec::execute(partition): &self, nothing of the node is written
Execute(partition) ==
    /\ pc = "execute"
    /\ partition \in OutputPartitions
    /\ lastCall' = ClusterSendExec_execute(ClusterSendOf(routerPlan), available_nodes,
                                           serialized_plan, partition)
    /\ UNCHANGED <<pc, plan, routerPlan, workerPlan, available_nodes, serialized_plan,
                   status, callCount, result, cube_table, projection, scanResult,
                   decimal, row, batch, frame, snapshot_groups, batches>>

NextSend ==
    \/ SendSplit
    \/ \E partition \in OutputPartitions : Execute(partition)

SpecSend == InitSend /\ [][NextSend]_vars


----------------------------------------------------------------------------
(* Properties of the cluster exchange *)

RECURSIVE Product(_)
Product(sizes) == IF sizes = <<>> THEN 1 ELSE Head(sizes) * Product(Tail(sizes))

RECURSIVE SnapshotsSize(_)
\* the total number of partitions of the snapshots of a group
SnapshotsSize(group) ==
    IF group = <<>> THEN 0 ELSE Len(Head(group).partitions) + SnapshotsSize(Tail(group))

RECURSIVE NthOfGroup(_, _)
\* the partition id at 0-based position n of a group
NthOfGroup(group, n) ==
    IF n < Len(Head(group).partitions)
    THEN Head(group).partitions[n + 1].id
    ELSE NthOfGroup(Tail(group), n - Len(Head(group).partitions))

\* the tuple at 0-based index n of the cartesian product of the groups in
\* lexicographic order: the digits of n in the mixed radix of the group sizes
LexTuple(groups, n) ==
    [g \in 1..Len(groups) |->
        LET stride == Product([h \in 1..(Len(groups) - g) |-> SnapshotsSize(groups[g + h])])
        IN  NthOfGroup(groups[g], (n \div stride) % SnapshotsSize(groups[g]))]

\* the groups at the split node, the root of the plan
SplitGroups == union_snapshots_from_cube_table(plan)

Sent == pc = "execute" /\ IsPlan(routerPlan) /\ PathsOfKind(routerPlan, "ClusterSend") # {}

\* C5: the ClusterSend has |G1|*...*|Gk| output partitions and partition i
\* is the i-th tuple of the groups in lexicographic cartesian order; for
\* two independent scans A and B the tuple (a_i, b_j) is at index i*|B|+j.
C5_CartesianProduct ==
    Sent =>
        LET cs == ClusterSendOf(routerPlan)
            sizes == [g \in 1..Len(SplitGroups) |-> SnapshotsSize(SplitGroups[g])]
        IN  /\ ClusterSend_output_partitioning(cs) = Product(sizes)
            /\ \A n \in 0..(Product(sizes) - 1) : cs.partitions[n + 1] = LexTuple(SplitGroups, n)
            /\ (Len(SplitGroups) = 2 /\ Len(SplitGroups[1]) = 1 /\ Len(SplitGroups[2]) = 1) =>
                   LET A == SplitGroups[1][1].partitions
                       B == SplitGroups[2][1].partitions
                   IN  \A i \in 0..(Len(A) - 1) : \A j \in 0..(Len(B) - 1) :
                           cs.partitions[i * Len(B) + j + 1] = <<A[i + 1].id, B[j + 1].id>>

\* three groups of at least two partitions each, sizes not all equal
C5_Witness ==
    /\ Sent
    /\ Len(SplitGroups) = 3
    /\ \A g \in 1..3 : SnapshotsSize(SplitGroups[g]) >= 2
    /\ SnapshotsSize(SplitGroups[1]) # SnapshotsSize(SplitGroups[3])
    /\ ClusterSend_output_partitioning(ClusterSendOf(routerPlan)) >= 12

\* the split subtree is Union(IndexScan_A, IndexScan_B), A of 2 and B of 3
\* partitions
IsUnion2And3 ==
    /\ Len(plan.children) = 1
    /\ plan.children[1].kind = "Union"
    /\ LET snapshots == index_snapshots_from_cube_table(plan.children[1])
       IN  /\ Len(snapshots) = 2
           /\ Len(snapshots[1].partitions) = 2
           /\ Len(snapshots[2].partitions) = 3

\* the ids of every partition of the two unioned snapshots
UnionIds ==
    UNION {{s.partitions[k].id : k \in 1..Len(s.partitions)} :
              s \in SeqToSet(index_snapshots_from_cube_table(plan))}

\* C6 as stated: the ClusterSend over Union(A, B) with 2 and 3 partitions has
\* one output partition, and the plan dispatched for it carries all 5 ids.
C6_UnionOneOutputPartition ==
    (Sent /\ IsUnion2And3) =>
        /\ ClusterSend_output_partitioning(ClusterSendOf(routerPlan)) = 1
        /\ lastCall.kind = "call" => lastCall.plan.partition_ids_to_execute = UnionIds

\* C6 amended: the ClusterSend over Union(A, B) with 2 and 3 partitions has 5
\* output partitions, one per partition of the single union group (A's, then
\* B's), and the plan dispatched for output partition i carries exactly the
\* i-th of these 5 ids.
C6_UnionOnePartitionEach ==
    (Sent /\ IsUnion2And3) =>
        LET cs == ClusterSendOf(routerPlan)
            A == index_snapshots_from_cube_table(plan)[1].partitions
            B == index_snapshots_from_cube_table(plan)[2].partitions
        IN  /\ ClusterSend_output_partitioning(cs) = 5
            /\ cs.partitions = <<<<A[1].id>>, <<A[2].id>>, <<B[1].id>>, <<B[2].id>>, <<B[3].id>>>>
            /\ Cardinality(UnionIds) = 5
            /\ lastCall.kind = "call" =>
                   /\ lastCall.plan.partition_ids_to_execute \subseteq UnionIds
                   /\ lastCall.plan.partition_ids_to_execute =
                          {cs.partitions[lastCall.partition + 1][1]}

\* the last of the 5 output partitions of the union was dispatched
C6_Witness ==
    /\ Sent
    /\ IsUnion2And3
    /\ lastCall.kind = "call"
    /\ lastCall.partition = 4

\* C7: every run_select call of execute(i) names a node of the
\* available-nodes list and carries the shared plan specialized to exactly the
\* partition ids of tuple i; the call changes neither the shared serialized
\* plan nor the ClusterSend (its partition list).
C7_ExecuteDispatch ==
    /\ [](lastCall.kind = "call" =>
            LET cs == ClusterSendOf(routerPlan)
                tuple == cs.partitions[lastCall.partition + 1]
            IN  /\ lastCall.node \in SeqToSet(available_nodes)
                /\ lastCall.plan.partition_ids_to_execute = {tuple[g] : g \in 1..Len(tuple)}
                /\ lastCall.plan.logical_plan = serialized_plan.logical_plan
                /\ serialized_plan.partition_ids_to_execute = {})
    /\ [][lastCall' # lastCall =>
            /\ serialized_plan' = serialized_plan
            /\ routerPlan' = routerPlan
            /\ available_nodes' = available_nodes]_vars

\* a tuple of two different partitions was dispatched while other tuples
\* exist and two nodes are available
C7_Witness ==
    /\ Sent
    /\ lastCall.kind = "call"
    /\ Len(available_nodes) = 2
    /\ Cardinality(lastCall.plan.partition_ids_to_execute) = 2
    /\ lastCall.partition > 0
    /\ ClusterSend_output_partitioning(ClusterSendOf(routerPlan)) > 2

----------------------------------------------------------------------------
(* Specification SpecRun: one execute_router_plan run; the engine drives    *)
(* the output partitions of the ClusterSend concurrently                    *)

\* partitions per index snapshot of a run
MaxRunPartitions == 2

RunPlans ==
    {HashAggregateExec(SendSubtree(shape, SnapshotOf("A", 1, nA), SnapshotOf("B", 11, nB),
                                   SnapshotOf("C", 21, 0))) :
        shape \in {"scan", "union"}, nA \in 1..MaxRunPartitions, nB \in 0..MaxRunPartitions}

\* a plausible slip: a failed run_select is tried again
execute_after_run_select_retry(outcome) == IF outcome = "err" THEN "pending" ELSE "ok"

\* ClusterSendExec::execute, lines 670-674: `.await?` hands an Err of
\* run_select to the caller; an Ok becomes the partition's record-batch stream
execute_after_run_select(outcome) == IF outcome = "err" THEN "failed" ELSE "ok"

\* a plausible slip: the batches of the partitions that succeeded are kept
router_result_partial(statuses) ==
    IF \A i \in DOMAIN statuses : statuses[i] = "failed" THEN "error" ELSE "dataframe"

\* execute_router_plan, lines 93 and 122: `results?` returns the error of
\* collect; only an Ok result is turned into a DataFrame
router_result(statuses) ==
    IF \E i \in DOMAIN statuses : statuses[i] = "failed" THEN "error" ELSE "dataframe"

InitRun ==
    /\ pc = "split"
    /\ plan \in RunPlans
    /\ routerPlan = NoPlan
    /\ workerPlan = NoPlan
    /\ available_nodes \in NodeLists \ {<<>>}
    /\ serialized_plan = [logical_plan |-> "query", partition_ids_to_execute |-> {}]
    /\ lastCall = NoCall
    /\ status = <<>>
    /\ callCount = <<>>
    /\ result = "none"
    /\ cube_table = Idle
    /\ projection = Idle
    /\ scanResult = Idle
    /\ decimal = Idle
    /\ row = Idle
    /\ batch = Idle
    /\ frame = Idle
    /\ snapshot_groups = Idle
    /\ batches = Idle

\* execute_router_plan, lines 82-93: the plan is split and collect starts
RunSplit ==
    /\ pc = "split"
    /\ routerPlan' = get_router_split_plan(plan)
    /\ pc' = "collect"
    /\ LET n == ClusterSend_output_partitioning(ClusterSendOf(routerPlan'))
       IN  /\ status' = [i \in 0..(n - 1) |-> "pending"]
           /\ callCount' = [i \in 0..(n - 1) |-> 0]
    /\ UNCHANGED <<plan, workerPlan, available_nodes, serialized_plan, lastCall,
                   result, cube_table, projection, scanResult, decimal, row, batch, frame, snapshot_groups, batches>>

\* ClusterSendExec::execute(partition) up to the await of cluster.run_select;
\* a task the engine has spawned runs on after the run has returned
StartCall(partition) ==
    /\ pc \in {"collect", "done"}
    /\ status[partition] = "pending"
    /\ lastCall' = ClusterSendExec_execute(ClusterSendOf(routerPlan), available_nodes,
                                           serialized_plan, partition)
    /\ lastCall'.kind = "call"
    /\ status' = [status EXCEPT ![partition] = "running"]
    /\ callCount' = [callCount EXCEPT ![partition] = @ + 1]
    /\ UNCHANGED <<pc, plan, routerPlan, workerPlan, available_nodes, serialized_plan,
                   result, cube_table, projection, scanResult, decimal, row, batch, frame, snapshot_groups, batches>>

\* cluster.run_select returns Ok or Err
CompleteCall(partition, outcome) ==
    /\ pc \in {"collect", "done"}
    /\ status[partition] = "running"
    /\ status' = [status EXCEPT ![partition] = execute_after_run_select(outcome)]
    /\ UNCHANGED <<pc, plan, routerPlan, workerPlan, available_nodes, serialized_plan,
                   lastCall, callCount, result, cube_table, projection, scanResult,
                   decimal, row, batch, frame, snapshot_groups, batches>>

\* collect returns: with the first Err of a partition, or with the batches
\* once every partition has delivered
FinishRun ==
    /\ pc = "collect"
    /\ \/ \E i \in DOMAIN status : status[i] = "failed"
       \/ \A i \in DOMAIN status : status[i] = "ok"
    /\ result' = router_result(status)
    /\ pc' = "done"
    /\ UNCHANGED <<plan, routerPlan, workerPlan, available_nodes, serialized_plan,
                   lastCall, status, callCount, cube_table, projection, scanResult,
                   decimal, row, batch, frame, snapshot_groups, batches>>

NextRun ==
    \/ RunSplit
    \/ \E partition \in DOMAIN status : StartCall(partition)
    \/ \E partition \in DOMAIN status, outcome \in {"ok", "err"} :
           CompleteCall(partition, outcome)
    \/ FinishRun

SpecRun == InitRun /\ [][NextRun]_vars

\* C8: in one execute_router_plan run, whatever the interleaving of the
\* output partitions, run_select is called at most once per output
\* partition, and a run in which a call failed returns an error, never a
\* DataFrame.
C8_NoRetryWholeQueryFailure ==
    /\ \A i \in DOMAIN callCount : callCount[i] <= 1
    /\ result = "dataframe" => \A i \in DOMAIN status : status[i] = "ok"
    /\ (pc = "done" /\ \E i \in DOMAIN status : status[i] = "failed") => result = "error"

\* a run of at least three output partitions returned an error after one
\* partition succeeded and another failed
C8_Witness ==
    /\ pc = "done"
    /\ result = "error"
    /\ Cardinality(DOMAIN status) >= 3
    /\ \E i, j \in DOMAIN status : status[i] = "ok" /\ status[j] = "failed"
    /\ \A i \in DOMAIN status : callCount[i] = 1

----------------------------------------------------------------------------
(* Specification SpecScan: CubeTable::scan over one index snapshot *)

\* columns of a table
MaxColumns == 3
\* length of a projection
MaxProjection == 2

ColumnNames == <<"a", "b", "c", "d", "e">>
Columns == SeqToSet(SubSeq(ColumnNames, 1, MaxColumns))

\* the sequences of at most n different columns
RECURSIVE ColumnLists(_)
ColumnLists(n) ==
    IF n = 0
    THEN {<<>>}
    ELSE ColumnLists(n - 1)
         \cup {Append(l, c) : l \in ColumnLists(n - 1), c \in Columns}

DistinctColumnLists(n) ==
    {l \in ColumnLists(n) : \A i, j \in 1..Len(l) : i # j => l[i] # l[j]}

\* the sequences of at most len positions of a table of n columns
RECURSIVE IndexLists(_, _)
IndexLists(n, len) ==
    IF len = 0
    THEN {<<>>}
    ELSE IndexLists(n, len - 1)
         \cup {Append(l, i) : l \in IndexLists(n, len - 1), i \in 0..(n - 1)}

\* Option<Vec<usize>> over a table of n columns
Projections(n) == {None} \cup {Some(l) : l \in IndexLists(n, MaxProjection)}

\* the partition lists and partition selections scanned
ScanSelections ==
    {[partitions |-> SnapshotA.partitions, ids |-> {}],
     [partitions |-> SnapshotA.partitions, ids |-> {1, 2}],
     [partitions |-> SnapshotB.partitions, ids |-> {4}],
     [partitions |-> SnapshotB.partitions, ids |-> {5}]}

ScanTables ==
    {CubeTable_try_new(
         [name |-> "T", table |-> SubSeq(ColumnNames, 1, n), index |-> index,
          partitions |-> sel.partitions, join_on |-> join_on],
         UNION {SeqToSet(PartitionRemotePaths(sel.partitions[k])) :
                    k \in 1..Len(sel.partitions)},
         sel.ids) :
        n \in 1..MaxColumns, index \in DistinctColumnLists(MaxColumns) \ {<<>>},
        sel \in ScanSelections, join_on \in BOOLEAN}

InitScan ==
    /\ pc = "scan"
    /\ plan = Idle
    /\ routerPlan = Idle
    /\ workerPlan = Idle
    /\ available_nodes = Idle
    /\ serialized_plan = Idle
    /\ lastCall = Idle
    /\ status = Idle
    /\ callCount = Idle
    /\ result = Idle
    /\ cube_table \in ScanTables
    /\ projection \in Projections(Len(cube_table.index_snapshot.table))
    /\ scanResult = NoPlan
    /\ decimal = Idle
    /\ row = Idle
    /\ batch = Idle
    /\ frame = Idle
    /\ snapshot_groups = Idle
    /\ batches = Idle

\* TableProvider::scan
Scan ==
    /\ pc = "scan"
    /\ scanResult' = async_scan(cube_table, projection)
    /\ pc' = "scanned"
    /\ UNCHANGED <<plan, routerPlan, workerPlan, available_nodes, serialized_plan,
                   lastCall, status, callCount, result, cube_table, projection,
                   decimal, row, batch, frame, snapshot_groups, batches>>

NextScan == Scan

SpecScan == InitScan /\ [][NextScan]_vars

\* the 0-based position of a column in a list that holds it
PositionIn(columns, name) == (CHOOSE p \in 1..Len(columns) : columns[p] = name) - 1

\* every projected table column exists in the index
Resolvable ==
    /\ projection.some
    /\ \A j \in 1..Len(projection.val) :
           cube_table.index_snapshot.table[projection.val[j] + 1]
               \in SeqToSet(cube_table.index_snapshot.index)

\* no table column is projected twice
NoColumnTwice ==
    \A i, j \in 1..Len(projection.val) : i # j => projection.val[i] # projection.val[j]

\* C9: with Q[j] the position in the index of table.columns[P[j]], the j-th
\* field of the scan's output schema is the index column at position Q[j]:
\* the fields appear in the order of Q.
C9_SchemaInProjectionOrder ==
    (pc = "scanned" /\ Resolvable /\ NoColumnTwice) =>
        LET table == cube_table.index_snapshot.table
            index == cube_table.index_snapshot.index
            Q == [j \in 1..Len(projection.val) |-> PositionIn(index, table[projection.val[j] + 1])]
        IN  /\ IsPlan(scanResult)
            /\ scanResult.children[1].kind = "CubeTable"
            /\ scanResult.children[1].schema = [j \in 1..Len(Q) |-> index[Q[j] + 1]]

----------------------------------------------------------------------------
(* Specification SpecRows: batch_to_dataframe renders one decimal value *)

\* largest absolute int64 value held by a decimal array
MaxDecimalValue == 120

\* the scales batch_to_dataframe has an Int64Decimal arm for, lines 791-853
DecimalScales == {0, 1, 2, 3, 4, 5, 10}

Digits == <<"0", "1", "2", "3", "4", "5", "6", "7", "8", "9">>
IsDigit(c) == c \in SeqToSet(Digits)
IsNonZeroDigit(c) == IsDigit(c) /\ c # "0"

\* BigInt::to_str_radix(10) of a non-negative integer
RECURSIVE to_str_radix10(_)
to_str_radix10(n) ==
    IF n < 10 THEN <<Digits[n + 1]>> ELSE Append(to_str_radix10(n \div 10), Digits[(n % 10) + 1])

Zeros(n) == [i \in 1..n |-> "0"]

\* BigDecimal::new(BigInt::from(value), scale).to_string(), line 723: the
\* digits of |value| with the point `scale` digits from the right
BigDecimal_to_string(value, scale) ==
    LET abs_int == to_str_radix10(IF value < 0 THEN -value ELSE value)
        before == IF scale >= Len(abs_int)
                  THEN <<"0">>
                  ELSE SubSeq(abs_int, 1, Len(abs_int) - scale)
        after == IF scale >= Len(abs_int)
                 THEN Zeros(scale - Len(abs_int)) \o abs_int
                 ELSE SubSeq(abs_int, Len(abs_int) - scale + 1, Len(abs_int))
        complete_without_sign == IF after # <<>> THEN before \o <<".">> \o after ELSE before
    IN  IF value < 0 THEN <<"-">> \o complete_without_sign ELSE complete_without_sign

\* -?\d+
IsSignedDigits(s) ==
    LET digits == IF s # <<>> /\ Head(s) = "-" THEN Tail(s) ELSE s
    IN  digits # <<>> /\ \A i \in 1..Len(digits) : IsDigit(digits[i])

\* the number of "0" that end s
RECURSIVE TrailingZeros(_)
TrailingZeros(s) ==
    IF s = <<>> \/ s[Len(s)] # "0" THEN 0 ELSE 1 + TrailingZeros(SubSeq(s, 1, Len(s) - 1))

\* cut_trailing_zeros.replace(s, "$1$3"), lines 768 and 725-727, with
\* cut_trailing_zeros = ^(-?\d+\.[1-9]+)([0]+)$|^(-?\d+)(\.[0]+)$
cut_trailing_zeros_replace(s) ==
    IF "." \notin SeqToSet(s)
    THEN s
    ELSE LET dot == CHOOSE d \in 1..Len(s) : s[d] = "." /\ \A e \in 1..(d - 1) : s[e] # "."
             head == SubSeq(s, 1, dot - 1)
             frac == SubSeq(s, dot + 1, Len(s))
             zeros == TrailingZeros(frac)
             kept == SubSeq(frac, 1, Len(frac) - zeros)
         IN  IF IsSignedDigits(head) /\ zeros >= 1 /\ kept # <<>>
                /\ \A i \in 1..Len(kept) : IsNonZeroDigit(kept[i])
             THEN \* first alternative: $1
                  head \o <<".">> \o kept
             ELSE IF IsSignedDigits(head) /\ frac # <<>> /\ kept = <<>>
             THEN \* second alternative: $3
                  head
             ELSE s

\* convert_array!(.., Decimal, scale, cut_trailing_zeros), lines 717-731
convert_decimal(value, scale) ==
    [tag |-> "Decimal", string |-> cut_trailing_zeros_replace(BigDecimal_to_string(value, scale))]

InitRows ==
    /\ pc = "batch"
    /\ plan = Idle
    /\ routerPlan = Idle
    /\ workerPlan = Idle
    /\ available_nodes = Idle
    /\ serialized_plan = Idle
    /\ lastCall = Idle
    /\ status = Idle
    /\ callCount = Idle
    /\ result = Idle
    /\ cube_table = Idle
    /\ projection = Idle
    /\ scanResult = Idle
    /\ decimal \in [value : (-MaxDecimalValue)..MaxDecimalValue, scale : DecimalScales]
    /\ row = [tag |-> "none", string |-> <<>>]
    /\ batch = Idle
    /\ frame = Idle
    /\ snapshot_groups = Idle
    /\ batches = Idle

\* batch_to_dataframe on a batch of one Int64Decimal value
Materialize ==
    /\ pc = "batch"
    /\ row' = convert_decimal(decimal.value, decimal.scale)
    /\ pc' = "rows"
    /\ UNCHANGED <<plan, routerPlan, workerPlan, available_nodes, serialized_plan,
                   lastCall, status, callCount, result, cube_table, projection,
                   scanResult, decimal, batch, frame, snapshot_groups, batches>>

NextRows == Materialize

SpecRows == InitRows /\ [][NextRows]_vars

\* the decimal string with the zeros that end its fractional part dropped,
\* and the point too when no fractional digit is left
WithoutTrailingZeros(s) ==
    IF "." \notin SeqToSet(s)
    THEN s
    ELSE LET dot == CHOOSE d \in 1..Len(s) : s[d] = "."
             frac == SubSeq(s, dot + 1, Len(s))
             last == IF \E i \in 1..Len(frac) : frac[i] # "0"
                     THEN CHOOSE i \in 1..Len(frac) :
                              frac[i] # "0" /\ \A j \in (i + 1)..Len(frac) : frac[j] = "0"
                     ELSE 0
         IN  IF last = 0 THEN SubSeq(s, 1, dot - 1) ELSE SubSeq(s, 1, dot + last)

\* C10: the Decimal row value is the decimal string with the trailing zeros
\* of its fractional part dropped up to the last non-zero fractional digit
\* (and the point dropped with an all-zero fractional part); so "1.10" gives
\* "1.1", "1.00" gives "1", "-0.050" gives "-0.05", "1.5" and "10" stay.
C10_TrailingZerosTrimmed ==
    pc = "rows" =>
        /\ row.tag = "Decimal"
        /\ row.string = WithoutTrailingZeros(BigDecimal_to_string(decimal.value, decimal.scale))

----------------------------------------------------------------------------
(* Specification SpecBatch: batch_to_dataframe on one record batch of one   *)
(* column, over the columnar types                                          *)

\* rows of a record batch
MaxRows == 1

\* arrow's DataType: the tag, and the parameters of Timestamp and Int64Decimal
DataType(tag, unit, tz, scale) == [tag |-> tag, unit |-> unit, tz |-> tz, scale |-> scale]
Plain(tag) == DataType(tag, "", FALSE, 0)
Timestamp(unit, tz) == DataType("Timestamp", unit, tz, 0)
Int64Decimal(scale) == DataType("Int64Decimal", "", FALSE, scale)

IntegerTags == {"Int8", "Int16", "Int32", "Int64", "UInt8", "UInt16", "UInt32", "UInt64"}
FloatTags == {"Float16", "Float32", "Float64"}

DataTypes ==
    {Plain(tag) : tag \in {"Utf8", "LargeUtf8", "Boolean", "Null", "Binary", "Date32", "List"}
                          \cup IntegerTags \cup FloatTags}
    \cup {Timestamp(unit, tz) : unit \in {"Second", "Millisecond", "Microsecond", "Nanosecond"},
                                tz \in BOOLEAN}
    \cup {Int64Decimal(scale) : scale \in 0..10}

\* what an array holds at one row: null, a value, or (floats only) a value
\* BigDecimal::try_from rejects
ArrayValues(data_type) ==
    IF data_type.tag \in FloatTags THEN {"null", "value", "non_finite"} ELSE {"null", "value"}

RECURSIVE ArraysOf(_, _)
ArraysOf(data_type, n) ==
    IF n = 0
    THEN {<<>>}
    ELSE ArraysOf(data_type, n - 1)
         \cup {Append(a, v) : a \in {b \in ArraysOf(data_type, n - 1) : Len(b) = n - 1},
                              v \in ArrayValues(data_type)}

\* Result<_, CubeError>, and a panic
Ok(v) == [kind |-> "ok", val |-> v]
Err(e) == [kind |-> "err", val |-> e]
Abort == [kind |-> "panic", val |-> <<>>]
NoFrame == [kind |-> "none", val |-> <<>>]

\* arrow_to_column_type
arrow_to_column_type(arrow_type) ==
    CASE arrow_type.tag \in {"Utf8", "LargeUtf8"} -> Ok([type |-> "String", scale |-> 0])
      [] arrow_type.tag = "Timestamp" -> Ok([type |-> "Timestamp", scale |-> 0])
      [] arrow_type.tag \in {"Float16", "Float64"} -> Ok([type |-> "Decimal", scale |-> 10])
      [] arrow_type.tag = "Int64Decimal" -> Ok([type |-> "Decimal", scale |-> arrow_type.scale])
      [] arrow_type.tag = "Boolean" -> Ok([type |-> "Boolean", scale |-> 0])
      [] arrow_type.tag \in IntegerTags -> Ok([type |-> "Int", scale |-> 0])
      [] OTHER -> Err([error |-> "internal", data_type |-> arrow_type])

\* the arms of the match on array.data_type(), lines 773-901: the TableValue
\* tag an arm pushes for a value that is not null; "none" is the panic! arm
match_data_type(data_type) ==
    CASE data_type.tag \in {"UInt64", "Int64"} -> "Int"
      [] data_type.tag = "Float64" -> "Decimal"
      [] data_type.tag = "Int64Decimal" /\ data_type.scale \in DecimalScales -> "Decimal"
      [] data_type.tag = "Timestamp" /\ data_type.unit \in {"Microsecond", "Nanosecond"}
             /\ ~data_type.tz -> "Timestamp"
      [] data_type.tag = "Utf8" -> "String"
      [] data_type.tag = "Boolean" -> "Boolean"
      [] OTHER -> "none"

\* batch_to_dataframe on the batches <<b>>, b of one column
batch_to_dataframe(b) ==
    LET column_type == arrow_to_column_type(b.data_type)
        arm == match_data_type(b.data_type)
        rows == [i \in 1..Len(b.values) |->
                    <<IF b.values[i] = "null" THEN "Null" ELSE arm>>]
    IN  IF column_type.kind = "err"
        THEN column_type
        ELSE IF Len(b.values) = 0
        THEN Ok([cols |-> <<column_type.val>>, rows |-> <<>>])
        ELSE IF arm = "none"
        THEN Abort
        ELSE IF \E i \in 1..Len(b.values) : b.values[i] = "non_finite"
        THEN Err([error |-> "bigdecimal", data_type |-> b.data_type])
        ELSE Ok([cols |-> <<column_type.val>>, rows |-> rows])

InitBatch ==
    /\ pc = "batch"
    /\ plan = Idle
    /\ routerPlan = Idle
    /\ workerPlan = Idle
    /\ available_nodes = Idle
    /\ serialized_plan = Idle
    /\ lastCall = Idle
    /\ status = Idle
    /\ callCount = Idle
    /\ result = Idle
    /\ cube_table = Idle
    /\ projection = Idle
    /\ scanResult = Idle
    /\ decimal = Idle
    /\ row = Idle
    /\ \E t \in DataTypes : \E a \in ArraysOf(t, MaxRows) : batch = [data_type |-> t, values |-> a]
    /\ frame = NoFrame
    /\ snapshot_groups = Idle
    /\ batches = Idle

\* batch_to_dataframe(&vec![batch])
ToDataframe ==
    /\ pc = "batch"
    /\ frame' = batch_to_dataframe(batch)
    /\ pc' = "frame"
    /\ UNCHANGED <<plan, routerPlan, workerPlan, available_nodes, serialized_plan,
                   lastCall, status, callCount, result, cube_table, projection,
                   scanResult, decimal, row, batch, snapshot_groups, batches>>

NextBatch == ToDataframe

SpecBatch == InitBatch /\ [][NextBatch]_vars

\* the types the type bridge lists
BridgeTypes ==
    {t \in DataTypes :
        \/ t.tag \in {"Utf8", "LargeUtf8", "Float16", "Float64", "Int64Decimal", "Boolean"}
        \/ t.tag \in IntegerTags
        \/ t.tag = "Timestamp" /\ t.unit \in {"Microsecond", "Nanosecond"} /\ ~t.tz}

\* the batch has at least one row and every float in it converts
HasConvertibleRows ==
    /\ Len(batch.values) >= 1
    /\ \A i \in 1..Len(batch.values) : batch.values[i] # "non_finite"

\* C11: on a batch with at least one row, batch_to_dataframe produces a row
\* value for every type the type bridge lists, that is for every type
\* arrow_to_column_type accepts, and for any other type it returns an internal
\* error carrying the type tag; it never aborts.
C11_TypeCoverage ==
    (pc = "frame" /\ HasConvertibleRows) =>
        /\ frame.kind # "panic"
        /\ (batch.data_type \in BridgeTypes
            \/ arrow_to_column_type(batch.data_type).kind = "ok")
               => frame.kind = "ok" /\ Len(frame.val.rows) = Len(batch.values)
        /\ (batch.data_type \notin BridgeTypes
            /\ arrow_to_column_type(batch.data_type).kind = "err")
               => frame = Err([error |-> "internal", data_type |-> batch.data_type])

----------------------------------------------------------------------------
(* Specification SpecWrap: the splitting action, wrap_with_cluster_send, is *)
(* applied at a node N                                                      *)

InitWrap ==
    /\ pc = "wrap"
    /\ plan \in UNION {PlansOfSize(n) : n \in 0..MaxPlanNodes}
    /\ routerPlan = NoPlan
    /\ workerPlan = Idle
    /\ available_nodes = Idle
    /\ serialized_plan = Idle
    /\ lastCall = Idle
    /\ status = Idle
    /\ callCount = Idle
    /\ result = Idle
    /\ cube_table = Idle
    /\ projection = Idle
    /\ scanResult = Idle
    /\ decimal = Idle
    /\ row = Idle
    /\ batch = Idle
    /\ frame = Idle
    /\ snapshot_groups = Idle
    /\ batches = Idle

\* get_router_split_plan_at, lines 274-282, at a node the closure matches
Wrap ==
    /\ pc = "wrap"
    /\ routerPlan' = wrap_with_cluster_send(plan, plan.children)
    /\ pc' = "wrapped"
    /\ UNCHANGED <<plan, workerPlan, available_nodes, serialized_plan, lastCall,
                   status, callCount, result, cube_table, projection, scanResult,
                   decimal, row, batch, frame, snapshot_groups, batches>>

NextWrap == Wrap

SpecWrap == InitWrap /\ [][NextWrap]_vars

\* N is kept: the same node over other children
SameNode(n, m) ==
    /\ n.kind = m.kind
    /\ n.schema = m.schema
    /\ n.index_snapshot = m.index_snapshot

\* the one child the splitting action leaves below N, N having a first child
ExchangeChild(N) ==
    IF union_snapshots_from_cube_table(N) # <<>>
    THEN MergeExec(ClusterSendExec_new(N.children[1].schema, union_snapshots_from_cube_table(N)))
    ELSE EmptyExec(N.children[1].schema)

\* C12 as stated: whatever number of children N had, N is kept over exactly
\* one child: Merge(ClusterSend(schema of N's first child, groups of N)) when
\* the groups are not empty, an empty relation when no IndexScan is below N.
C12_OneChildWhateverArity ==
    pc = "wrapped" =>
        /\ IsPlan(routerPlan)
        /\ SameNode(routerPlan, plan)
        /\ Len(routerPlan.children) = 1
        /\ Len(plan.children) >= 1 => routerPlan.children[1] = ExchangeChild(plan)
        /\ PathsOfKind(plan, "CubeTable") = {} => routerPlan.children[1].kind = "Empty"

\* C12 amended: a node N with at least one child is kept over exactly one
\* child, Merge(ClusterSend(schema of N's first child, groups of N)) when the
\* groups are not empty and an empty relation of that schema when they are
\* empty, which is when neither an IndexScan nor a Union is in N's tree (a
\* Union without scans yields one empty group); on a node without children the
\* action fails (no plan).
C12_OneChildOfParent ==
    pc = "wrapped" =>
        /\ Len(plan.children) >= 1 =>
               /\ IsPlan(routerPlan)
               /\ SameNode(routerPlan, plan)
               /\ Len(routerPlan.children) = 1
               /\ routerPlan.children[1] = ExchangeChild(plan)
               /\ routerPlan.children[1].kind = "Empty" <=>
                      (PathsOfKind(plan, "CubeTable") = {} /\ PathsOfKind(plan, "Union") = {})
               /\ routerPlan.children[1].kind = "Merge" =>
                      /\ Len(routerPlan.children[1].children) = 1
                      /\ routerPlan.children[1].children[1].kind = "ClusterSend"
                      /\ routerPlan.children[1].children[1].schema = plan.children[1].schema
        /\ Len(plan.children) = 0 => routerPlan = Panic

\* a join of two scans is left with the exchange as its only child
C12_Witness ==
    /\ pc = "wrapped"
    /\ plan.kind = "Join"
    /\ Len(plan.children) = 2
    /\ Cardinality(PathsOfKind(plan, "CubeTable")) = 2
    /\ IsPlan(routerPlan)
    /\ Len(routerPlan.children) = 1
    /\ routerPlan.children[1].kind = "Merge"
    /\ routerPlan.children[1].children[1].kind = "ClusterSend"

----------------------------------------------------------------------------
(* Specification SpecGroups: union_snapshots_from_cube_table on a plan tree *)

\* the plans and every subtree of them
InspectedTrees ==
    UNION {{Subtree(t, p) : p \in Paths(t)} :
              t \in UNION {PlansOfSize(n) : n \in 0..MaxPlanNodes}}

InitGroups ==
    /\ pc = "inspect"
    /\ plan \in InspectedTrees
    /\ routerPlan = Idle
    /\ workerPlan = Idle
    /\ available_nodes = Idle
    /\ serialized_plan = Idle
    /\ lastCall = Idle
    /\ status = Idle
    /\ callCount = Idle
    /\ result = Idle
    /\ cube_table = Idle
    /\ projection = Idle
    /\ scanResult = Idle
    /\ decimal = Idle
    /\ row = Idle
    /\ batch = Idle
    /\ frame = Idle
    /\ snapshot_groups = <<>>
    /\ batches = Idle

\* wrap_with_cluster_send, line 308
Inspect ==
    /\ pc = "inspect"
    /\ snapshot_groups' = union_snapshots_from_cube_table(plan)
    /\ pc' = "inspected"
    /\ UNCHANGED <<plan, routerPlan, workerPlan, available_nodes, serialized_plan,
                   lastCall, status, callCount, result, cube_table, projection,
                   scanResult, decimal, row, batch, frame, batches>>

NextGroups == Inspect

SpecGroups == InitGroups /\ [][NextGroups]_vars

\* p comes before q in a depth-first walk: p is a proper prefix of q, or p
\* turns to an earlier child where they part
DepthFirstBefore(p, q) ==
    \/ Len(p) < Len(q) /\ IsPrefix(p, q)
    \/ \E i \in 1..Len(p) :
          /\ i <= Len(q)
          /\ SubSeq(p, 1, i - 1) = SubSeq(q, 1, i - 1)
          /\ p[i] < q[i]

\* the paths of S in depth-first order
RECURSIVE InDepthFirstOrder(_)
InDepthFirstOrder(S) ==
    IF S = {}
    THEN <<>>
    ELSE LET first == CHOOSE p \in S : \A q \in S \ {p} : DepthFirstBefore(p, q)
         IN  <<first>> \o InDepthFirstOrder(S \ {first})

\* the IndexScan and Union nodes that have no Union above them
GroupRoots(t) ==
    {p \in PathsOfKind(t, "CubeTable") \cup PathsOfKind(t, "Union") :
        \A q \in ProperPrefixes(p) : Subtree(t, q).kind # "Union"}

\* the snapshots of the IndexScans at or below p, in depth-first order
SnapshotsBelow(t, p) ==
    LET scans == InDepthFirstOrder({s \in PathsOfKind(t, "CubeTable") : IsPrefix(p, s)})
    IN  [k \in 1..Len(scans) |-> Subtree(t, scans[k]).index_snapshot]

\* C13: an IndexScan yields one singleton group; a Union yields exactly one
\* group, the snapshots of all IndexScans anywhere below it in depth-first
\* order; any other node yields its children's groups concatenated in child
\* order. So every IndexScan of the tree is in exactly one group, once.
C13_UnionSnapshotGroups ==
    pc = "inspected" =>
        LET roots == InDepthFirstOrder(GroupRoots(plan))
        IN  /\ plan.kind = "CubeTable" => snapshot_groups = <<<<plan.index_snapshot>>>>
            /\ plan.kind = "Union" => snapshot_groups = <<SnapshotsBelow(plan, <<>>)>>
            /\ plan.kind \notin {"CubeTable", "Union"} =>
                   snapshot_groups =
                       Flatten([i \in 1..Len(plan.children) |->
                                   LET below == InDepthFirstOrder(GroupRoots(plan.children[i]))
                                   IN  [g \in 1..Len(below) |->
                                           SnapshotsBelow(plan.children[i], below[g])]])
            /\ snapshot_groups = [g \in 1..Len(roots) |-> SnapshotsBelow(plan, roots[g])]
            /\ Flatten(snapshot_groups) = SnapshotsBelow(plan, <<>>)
            /\ Len(Flatten(snapshot_groups)) = Cardinality(PathsOfKind(plan, "CubeTable"))

\* a Union over a nested operator with scans below it: one group of three
C13_Witness ==
    /\ pc = "inspected"
    /\ plan.kind = "Union"
    /\ plan.children[1].kind \in {"Join", "Union"}
    /\ Cardinality(PathsOfKind(plan, "CubeTable")) = 3
    /\ Len(snapshot_groups) = 1
    /\ Len(snapshot_groups[1]) = 3
    /\ snapshot_groups[1][1] # snapshot_groups[1][3]

----------------------------------------------------------------------------
(* Specification SpecFanout: scan over the partitions of one snapshot, with *)
(* any selection of partitions and any set of local files, and the          *)
(* execution of one partition of the IndexScan it returns                   *)

\* partitions of the scanned snapshot
MaxScanPartitions == 2
\* chunks of a partition
MaxChunks == 2
\* record batches a columnar file streams
MaxFileBatches == 1

\* the partition at position k of the snapshot (ids run against the positions)
PartitionsAt(k) ==
    {Partition(9 - k, file, [c \in 1..n |-> 10 * (9 - k) + c]) :
        file \in BOOLEAN, n \in 0..MaxChunks}

RECURSIVE PartitionLists(_)
PartitionLists(n) ==
    IF n = 0
    THEN {<<>>}
    ELSE {Append(l, ps) : l \in PartitionLists(n - 1), ps \in PartitionsAt(n)}

FanoutSnapshots ==
    {[name |-> "T", table |-> <<"a", "b">>, index |-> <<"a">>,
      partitions |-> partitions, join_on |-> FALSE] :
        partitions \in UNION {PartitionLists(n) : n \in 0..MaxScanPartitions}}

InitFanout ==
    /\ pc = "scan"
    /\ plan = Idle
    /\ routerPlan = Idle
    /\ workerPlan = Idle
    /\ available_nodes = Idle
    /\ serialized_plan = Idle
    /\ lastCall = Idle
    /\ status = Idle
    /\ callCount = Idle
    /\ result = Idle
    /\ \E index_snapshot \in FanoutSnapshots :
          \E remote_to_local_names \in SUBSET AllRemotePaths(index_snapshot) :
             \E worker_partition_ids \in
                    SUBSET {index_snapshot.partitions[k].id :
                                k \in 1..Len(index_snapshot.partitions)} :
                cube_table = CubeTable_try_new(index_snapshot, remote_to_local_names,
                                               worker_partition_ids)
    /\ projection \in {None, Some(<<0>>), Some(<<1>>)}
    /\ scanResult = NoPlan
    /\ decimal = Idle
    /\ row = Idle
    /\ batch = Idle
    /\ frame = Idle
    /\ snapshot_groups = Idle
    /\ batches = <<>>

\* EmptyExec::new(false, ..) streams nothing; a columnar-file scan streams the
\* batches of its file
Stream(exec) ==
    IF exec.kind = "Empty"
    THEN {<<>>}
    ELSE {[i \in 1..n |-> [file |-> exec.path, schema |-> exec.schema]] : n \in 0..MaxFileBatches}

\* CubeTableExec::execute: partition_execs[partition].execute(0)
CubeTableExec_execute(exec, partition) == Stream(exec.children[partition + 1])

\* the IndexScan inside the plan scan returned
ScannedExec == scanResult.children[1]

\* one output partition of the returned IndexScan is executed
ExecuteScan ==
    /\ pc = "scanned"
    /\ IsPlan(scanResult)
    /\ \E partition \in 0..(CubeTableExec_output_partitioning(ScannedExec) - 1) :
          batches' \in CubeTableExec_execute(ScannedExec, partition)
    /\ pc' = "executed"
    /\ UNCHANGED <<plan, routerPlan, workerPlan, available_nodes, serialized_plan,
                   lastCall, status, callCount, result, cube_table, projection,
                   scanResult, decimal, row, batch, frame, snapshot_groups>>

NextFanout == Scan \/ ExecuteScan

SpecFanout == InitFanout /\ [][NextFanout]_vars

\* the partitions of the snapshot whose id is selected, in snapshot order
SelectedPartitions ==
    SelectSeq(cube_table.index_snapshot.partitions,
              LAMBDA ps : ps.id \in cube_table.worker_partition_ids)

\* the files of a list of partitions: of each partition its own file, if it
\* has one, then its chunks
RECURSIVE FilesOf(_)
FilesOf(pss) ==
    IF pss = <<>>
    THEN <<>>
    ELSE (IF Head(pss).file THEN <<PartitionFullName(Head(pss).id)>> ELSE <<>>)
         \o [c \in 1..Len(Head(pss).chunks) |-> ChunkFullName(Head(pss).chunks[c])]
         \o FilesOf(Tail(pss))

RECURSIVE CountFiles(_)
CountFiles(pss) ==
    IF pss = <<>>
    THEN 0
    ELSE (IF Head(pss).file THEN 1 ELSE 0) + Len(Head(pss).chunks) + CountFiles(Tail(pss))

\* the scan nodes among the children of an IndexScan
ScanNodes(exec) == SelectSeq(exec.children, LAMBDA c : c.kind = "Parquet")

\* the projection is none or names only columns of the index
ProjectionResolves == ~projection.some \/ Resolvable

\* C15: scan emits scan nodes only for the partitions whose id is in
\* worker_partition_ids, in snapshot order: for each one node for the
\* partition file if there is one, then one node per chunk in chunk order;
\* their number is the sum over the selected partitions of (1 if file) + chunks.
C15_PartitionFanout ==
    IsPlan(scanResult) =>
        LET nodes == ScanNodes(ScannedExec)
            files == FilesOf(SelectedPartitions)
        IN  /\ Len(nodes) = CountFiles(SelectedPartitions)
            /\ [i \in 1..Len(nodes) |-> nodes[i].path] =
                   [i \in 1..Len(files) |-> LocalPath(files[i])]
            /\ \A i \in 1..Len(nodes) :
                   \E k \in 1..Len(SelectedPartitions) :
                       nodes[i].path \in
                           {LocalPath(f) : f \in SeqToSet(PartitionRemotePaths(SelectedPartitions[k]))}

\* the second of two partitions is selected and gives three nodes, the first
\* has files and gives none
C15_Witness ==
    /\ IsPlan(scanResult)
    /\ Len(cube_table.index_snapshot.partitions) = 2
    /\ cube_table.worker_partition_ids = {cube_table.index_snapshot.partitions[2].id}
    /\ cube_table.index_snapshot.partitions[1].file
    /\ cube_table.index_snapshot.partitions[2].file
    /\ Len(cube_table.index_snapshot.partitions[2].chunks) = 2
    /\ Len(ScanNodes(ScannedExec)) = 3

\* the fan-out emits nothing: no partition selected or none with a file
EmptyFanout == CountFiles(SelectedPartitions) = 0

\* C16: when the fan-out emits no scan node the IndexScan has exactly one
\* child, an empty relation of the full index schema; so every IndexScan that
\* scan produces has at least one output partition, and when the guard fired
\* executing it produces zero batches.
C16_EmptyGuard ==
    IsPlan(scanResult) =>
        /\ ScannedExec.kind = "CubeTable"
        /\ EmptyFanout <=> ScannedExec.children = <<EmptyExec(cube_table.index_snapshot.index)>>
        /\ ~EmptyFanout => \A i \in 1..Len(ScannedExec.children) :
                               ScannedExec.children[i].kind = "Parquet"
        /\ CubeTableExec_output_partitioning(ScannedExec) >= 1
        /\ (pc = "executed" /\ EmptyFanout) => batches = <<>>

\* a selected partition without file and chunks, under a projection: the
\* guard fired and the partition was executed
C16_Witness ==
    /\ pc = "executed"
    /\ IsPlan(scanResult)
    /\ cube_table.worker_partition_ids # {}
    /\ projection.some
    /\ EmptyFanout
    /\ Len(ScannedExec.children) = 1
    /\ ScannedExec.children[1].kind = "Empty"
    /\ batches = <<>>

\* some selected partition has a file or a chunk without a local path
MissingLocalPath ==
    \E k \in 1..Len(SelectedPartitions) :
        \E f \in SeqToSet(PartitionRemotePaths(SelectedPartitions[k])) :
            f \notin cube_table.remote_to_local_names

\* remote_to_local_names is not written
NamesKept == cube_table'.remote_to_local_names = cube_table.remote_to_local_names

====
